---- MODULE Spec2Model ----
(***************************************************************************)
(* Planticity: the plant simulation engine (models/plant.py) and the      *)
(* game that drives it (models/game.py).                                   *)
(*                                                                         *)
(* One Plant entity is driven by Plant.interact(action): the action        *)
(* effect followed by _end_day.  Python exceptions are modelled by the     *)
(* variable err, which records how the last call ended; a call that        *)
(* raises half way leaves the fields it has already assigned.              *)
(*                                                                         *)
(* Reals are kept as scaled integers: size and growth_rate in tenths,      *)
(* the factors of _blossom in hundredths.                                  *)
(***************************************************************************)
EXTENDS Integers, Sequences, FiniteSets, TLC

VARIABLES
    plant,    \* the Plant entity: a record of its ndb properties
    data,     \* PLANT_SPECIES[plant.name], the species record in use
    action,   \* the argument of the last interact call ("none" before any)
    err,      \* how the last interact call ended
    sample,   \* the results of a method applied on its own (GrowSpec)
    game      \* the Game entity with its user's games_won, Scores and Moves

vars == <<plant, data, action, err, sample, game>>

----------------------------------------------------------------------------
(* Status and actions                                                      *)

SEED == "seed"
PLANTED == "planted"
PLANT == "plant"
MATURE == "mature"
YIELD == "yield"
DEAD == "dead"

Statuses == {SEED, PLANTED, PLANT, MATURE, YIELD, DEAD}

\* The entries of the ACTIONS dictionary.
WAIT == "wait"
PLANT_SEED == "plant seed"
WATER == "water"
FUNGICIDE == "fungicide"
FUMIGATE == "fumigate"
FERTILIZE == "fertilize"

\* The dictionary has no entry for DEAD.
STATUS_ACTIONS ==
    (SEED :> {PLANT_SEED, FUNGICIDE, FUMIGATE,
              FERTILIZE})
    @@ (PLANTED :> {WAIT, WATER, FERTILIZE})
    @@ (PLANT :> {WAIT, WATER, FUNGICIDE,
                  FUMIGATE, FERTILIZE})
    @@ (MATURE :> {WAIT, WATER, FUNGICIDE,
                   FUMIGATE, FERTILIZE})
    @@ (YIELD :> {})

\* The strings a caller may pass to interact: the six actions and one
\* string that is no action at all.
ActionInputs ==
    {WAIT, PLANT_SEED, WATER, FUNGICIDE,
     FUMIGATE, FERTILIZE, "prune"}

\* How a call ends: normally, or with the exception it raises.
OK == "ok"
NotImplementedError == "NotImplementedError"
ValueError == "ValueError"
KeyError == "KeyError"

----------------------------------------------------------------------------
(* Arithmetic helpers                                                      *)

Min(a, b) == IF a < b THEN a ELSE b
Max(a, b) == IF a > b THEN a ELSE b
Abs(a) == IF a < 0 THEN -a ELSE a

\* random.randint(lo, hi) returns any integer of lo..hi.  The draws explored
\* are the two ends of the range.
RandInt(lo, hi) == {lo, hi}

\* round(n / d) for d > 0, ties to the even neighbour as Python's round.
RoundDiv(n, d) ==
    LET q == n \div d
        r == n % d
    IN  IF 2 * r < d THEN q
        ELSE IF 2 * r > d THEN q + 1
        ELSE IF q % 2 = 0 THEN q ELSE q + 1

\* int(n / d) for d > 0: truncation towards zero.
TruncDiv(n, d) == IF n >= 0 THEN n \div d ELSE -((-n) \div d)

----------------------------------------------------------------------------
(* Species data (PLANT_SPECIES, loaded from json/plant_species.json)       *)

\* A species record; growth_rate is in tenths.  The per-status records
\* are keyed by the status string, as data[self.status] reads them.
SpeciesRecord(g, m, y) ==
    [evolution |-> [germination |-> g, maturity |-> m, yield |-> y],
     growth_rate |-> 15,
     adult_size |-> 2,
     ideal_moisture |-> 50,
     plant |-> [ideal_fertilizer |-> 20, fungi_chance |-> 30,
                plague_chance |-> 20, flowers_day |-> 0],
     mature |-> [ideal_fertilizer |-> 30, fungi_chance |-> 30,
                 plague_chance |-> 20, flowers_day |-> 10]]

\* The species tables the engine is run with: one with ordered thresholds
\* and two whose thresholds are not ordered.
PLANT_SPECIES ==
    {SpeciesRecord(1, 2, 3), SpeciesRecord(0, 2, 3),
     SpeciesRecord(2, 2, 3)}

\* The longest run of days modelled.
MaxAge == 3

----------------------------------------------------------------------------
(* Helpers of Plant                                                        *)

_get_fertilizer_diff(p, d) == p.fertilizer - d[p.status].ideal_fertilizer

_get_moisture_diff(p, d) == p.moisture - d.ideal_moisture

_add_stress(p, amount) ==
    [p EXCEPT !.stress = Min(p.stress + amount, 100)]

_get_moisture_text(p) ==
    IF p.moisture = 0 THEN 1
    ELSE IF p.moisture < 25 THEN 2
    ELSE IF p.moisture < 50 THEN 3
    ELSE IF p.moisture < 75 THEN 4
    ELSE 5

_get_effect_text(text, num) == <<"effect_days", text, num, num > 1>>

\* The text of the plant's look, as the sequence of the literals joined.
_update_look(p, d) ==
    IF p.status = YIELD THEN [p EXCEPT !.look = <<<<"completed", p.flowers>>>>]
    ELSE IF p.status = DEAD THEN [p EXCEPT !.look = <<<<"is dead">>>>]
    ELSE
    LET grown == p.status \in {PLANT, MATURE}
        diff == _get_fertilizer_diff(p, d)
        looks ==
            <<<<"Day", p.age>>>>
            \o (IF p.age = d.evolution.germination
                THEN <<<<"germinated">>>> ELSE <<>>)
            \o <<<<"status", p.status>>>>
            \o (IF grown THEN <<<<"plant_size", p.size>>>> ELSE <<>>)
            \o (IF grown /\ p.fungi THEN <<<<"fungi">>>> ELSE <<>>)
            \o (IF grown /\ p.plague THEN <<<<"plague">>>> ELSE <<>>)
            \o (IF p.status = MATURE
                THEN <<<<"fertilized_flowers", p.flowers, p.flowers > 1>>>>
                ELSE <<>>)
            \o <<<<"moisture", _get_moisture_text(p)>>>>
            \o (IF p.fungicide > 0
                THEN <<_get_effect_text("fungicide", p.fungicide)>>
                ELSE <<>>)
            \o (IF p.fumigation > 0
                THEN <<_get_effect_text("fumigation", p.fumigation)>>
                ELSE <<>>)
            \o (IF grown
                THEN IF diff < -20 THEN <<<<"fertilization", "lack">>>>
                     ELSE IF diff > 20 THEN <<<<"fertilization", "toxic">>>>
                     ELSE IF diff > -10 /\ diff < 10
                          THEN <<<<"fertilization", "ok">>>>
                     ELSE <<>>
                ELSE <<>>)
            \o <<<<"Moisture", p.moisture>>>>
            \o <<<<"Fertilizer", p.fertilizer>>>>
            \o (IF p.status \notin {SEED, PLANTED}
                THEN <<<<"Stress", p.stress>>>> ELSE <<>>)
    IN  [p EXCEPT !.look = looks]

\* Plant.new_plant: the property defaults, then _update_look.
new_plant(d) ==
    _update_look(
        [age |-> 0, size |-> 0, status |-> SEED, stress |-> 0,
         moisture |-> 0, flowers |-> 0, look |-> <<<<"a seed">>>>,
         fertilizer |-> 0, fungicide |-> 0, fumigation |-> 0,
         fungi |-> FALSE, plague |-> FALSE, dead |-> FALSE], d)

----------------------------------------------------------------------------
(* Methods that progress the status                                        *)

_plant_seed_raises(p) == p.status # SEED
_plant_seed(p) == [p EXCEPT !.status = PLANTED]

\* Faulty variant of _germinate: the status stays as it was.
_germinate_stress_only(p, d) ==
    [p EXCEPT !.stress = p.stress + Abs(p.moisture - d.ideal_moisture)]

_germinate_raises(p) == ~(p.status = PLANTED)
_germinate(p, d) ==
    [p EXCEPT !.status = PLANT,
              !.stress = p.stress + Abs(p.moisture - d.ideal_moisture)]

\* Faulty variant of _mature: the status is set to the wrong literal.
_mature_to_planted(p) == [p EXCEPT !.status = PLANTED]

_mature_raises(p) == ~(p.status = PLANT)
_mature(p) == [p EXCEPT !.status = MATURE]

\* Faulty variant of _yield: the dead flag is forgotten.
_yield_status_only(p) == [p EXCEPT !.status = YIELD]

_yield_raises(p) == ~(p.status = MATURE)
_yield(p) == [p EXCEPT !.status = YIELD, !.dead = TRUE]

\* Faulty variant of _kill: the status is forgotten.
_kill_flag_only(p) == [p EXCEPT !.dead = TRUE]

_kill(p) == [p EXCEPT !.status = DEAD, !.dead = TRUE]

----------------------------------------------------------------------------
(* Methods that perform actions                                            *)

\* Faulty variant of _water: the cap at 100 is missing.
_water_uncapped(p) ==
    {[p EXCEPT !.moisture = p.moisture + retained_water] :
        retained_water \in RandInt(30, 70)}

_water(p) ==
    {[p EXCEPT !.moisture = Min(p.moisture + retained_water, 100)] :
        retained_water \in RandInt(30, 70)}

_fungicide(p) ==
    _add_stress([p EXCEPT !.fungi = FALSE, !.fungicide = 5], 10)

_fumigate(p) ==
    _add_stress([p EXCEPT !.plague = FALSE, !.fumigation = 5], 10)

_fertilize(p) == [p EXCEPT !.fertilizer = Min(100, p.fertilizer + 10)]

----------------------------------------------------------------------------
(* The day advance                                                         *)

\* Faulty variant of the first step: the fertilizer is not decremented.
_end_day_counters_keep_fertilizer(p) ==
    IF p.status # SEED
    THEN [p EXCEPT !.age = p.age + 1,
                   !.fungicide = p.fungicide - (IF p.fungicide > 0 THEN 1 ELSE 0),
                   !.fumigation = p.fumigation - (IF p.fumigation > 0 THEN 1 ELSE 0)]
    ELSE p

\* Faulty variant of the first step: the test of the status is dropped.
_end_day_counters_any_status(p) ==
    [p EXCEPT !.age = p.age + 1,
              !.fungicide = p.fungicide - (IF p.fungicide > 0 THEN 1 ELSE 0),
              !.fumigation = p.fumigation - (IF p.fumigation > 0 THEN 1 ELSE 0),
              !.fertilizer = p.fertilizer - (IF p.fertilizer > 0 THEN 1 ELSE 0)]

\* _end_day, first step: the age and the three countdowns.
_end_day_counters(p) ==
    IF p.status # SEED
    THEN [p EXCEPT !.age = p.age + 1,
                   !.fungicide = p.fungicide - (IF p.fungicide > 0 THEN 1 ELSE 0),
                   !.fumigation = p.fumigation - (IF p.fumigation > 0 THEN 1 ELSE 0),
                   !.fertilizer = p.fertilizer - (IF p.fertilizer > 0 THEN 1 ELSE 0)]
    ELSE p

\* _evolve raises exactly when the transition it selects raises.
_evolve_raises(p, d) ==
    IF p.age = d.evolution.germination THEN _germinate_raises(p)
    ELSE IF p.age = d.evolution.maturity THEN _mature_raises(p)
    ELSE IF p.age = d.evolution.yield THEN _yield_raises(p)
    ELSE FALSE

\* Faulty variant of _evolve: the yield branch is missing.
_evolve_without_yield(p, d) ==
    IF p.age = d.evolution.germination THEN _germinate(p, d)
    ELSE IF p.age = d.evolution.maturity THEN _mature(p)
    ELSE p

_evolve(p, d) ==
    IF p.age = d.evolution.germination THEN _germinate(p, d)
    ELSE IF p.age = d.evolution.maturity THEN _mature(p)
    ELSE IF p.age = d.evolution.yield THEN _yield(p)
    ELSE p

_consume_water(p) ==
    {[p EXCEPT !.moisture = Max(p.moisture - lost_water, 0)] :
        lost_water \in RandInt(10, 20)}

\* day_growth of _grow in thousandths of a tenth, so that both branches
\* are exact.
day_growth(p, d) ==
    LET fertilizer_diff == Abs(_get_fertilizer_diff(p, d))
    IN  IF fertilizer_diff < 10
        THEN 33 * (10 - fertilizer_diff) * d.growth_rate
        ELSE 10 * (100 - p.stress) * d.growth_rate

_grow(p, d) ==
    [p EXCEPT !.size = RoundDiv(p.size * 1000 + day_growth(p, d), 1000)]

\* The four factors are kept as integers: fertile_factor in hundredths,
\* growth_factor as size (tenths) over adult_size, stress_factor and
\* random_factor in hundredths.
_blossom(p, d) ==
    LET fertilizer_diff == Abs(_get_fertilizer_diff(p, d))
        fertile_factor ==
            IF fertilizer_diff < 20 THEN 120 - 5 * fertilizer_diff ELSE 0
        stress_factor == 100 - p.stress
        daily_flowers == d[p.status].flowers_day
    IN  {[p EXCEPT !.flowers =
            p.flowers + TruncDiv(fertile_factor * p.size * stress_factor
                                    * random_factor * daily_flowers,
                                 10000000 * d.adult_size)] :
            random_factor \in RandInt(90, 110)}

\* Faulty variant of _roll_fungi: the countdown is not looked at.
_roll_fungi_unprotected(p, d) ==
    IF ~p.fungi
    THEN {[p EXCEPT !.fungi = (d[p.status].fungi_chance > dice)] :
            dice \in RandInt(0, 100)}
    ELSE {p}

_roll_fungi(p, d) ==
    IF ~p.fungi /\ p.fungicide = 0
    THEN {[p EXCEPT !.fungi = (d[p.status].fungi_chance > dice)] :
            dice \in RandInt(0, 100)}
    ELSE {p}

_roll_plague(p, d) ==
    IF ~p.plague /\ p.fumigation = 0
    THEN {[p EXCEPT !.plague = (d[p.status].plague_chance > dice)] :
            dice \in RandInt(0, 100)}
    ELSE {p}

\* Faulty variant of _calc_plant_stress: the cap at 100 is missing.
_calc_plant_stress_uncapped(p, d) ==
    LET moisture_diff == Abs(_get_moisture_diff(p, d))
        fertilizer_diff == Abs(_get_fertilizer_diff(p, d))
        s1 == p.stress + moisture_diff - 30
        s2 == IF p.fungi \/ p.plague THEN s1 + 25 ELSE s1
        s3 == IF fertilizer_diff > 20 THEN s2 + fertilizer_diff - 20 ELSE s2
    IN  [p EXCEPT !.stress = Max(s3, 0)]

_calc_plant_stress(p, d) ==
    LET moisture_diff == Abs(_get_moisture_diff(p, d))
        fertilizer_diff == Abs(_get_fertilizer_diff(p, d))
        s1 == p.stress + moisture_diff - 30
        s2 == IF p.fungi \/ p.plague THEN s1 + 25 ELSE s1
        s3 == IF fertilizer_diff > 20 THEN s2 + fertilizer_diff - 20 ELSE s2
    IN  [p EXCEPT !.stress = Max(Min(s3, 100), 0)]

\* What a call leaves behind: the plant and how the call ended.
Outcome(p, e) == [p |-> p, e |-> e]

\* Faulty variant of _end_day: a mature plant grows as well.
_end_day_grows_mature(p, d) ==
    LET counted == _end_day_counters(p)
        evolved == _evolve(counted, d)
        dried == _consume_water(evolved)
        grown == {IF q.status \in {PLANT, MATURE} THEN _grow(q, d) ELSE q :
                    q \in dried}
        flowered ==
            UNION {IF q.status = MATURE THEN _blossom(q, d) ELSE {q} :
                    q \in grown}
        rolled ==
            UNION {IF q.status \in {PLANT, MATURE}
                   THEN {_calc_plant_stress(r, d) :
                           r \in UNION {_roll_plague(f, d) :
                                          f \in _roll_fungi(q, d)}}
                   ELSE {q} : q \in flowered}
        checked == {IF q.stress > 99 THEN _kill(q) ELSE q : q \in rolled}
    IN  IF _evolve_raises(counted, d)
        THEN {Outcome(counted, ValueError)}
        ELSE {Outcome(_update_look(q, d), OK) : q \in checked}

\* _end_day: every outcome the random draws allow.
_end_day(p, d) ==
    LET counted == _end_day_counters(p)
        evolved == _evolve(counted, d)
        dried == _consume_water(evolved)
        grown == {IF q.status = PLANT THEN _grow(q, d) ELSE q : q \in dried}
        flowered ==
            UNION {IF q.status = MATURE THEN _blossom(q, d) ELSE {q} :
                    q \in grown}
        rolled ==
            UNION {IF q.status \in {PLANT, MATURE}
                   THEN {_calc_plant_stress(r, d) :
                           r \in UNION {_roll_plague(f, d) :
                                          f \in _roll_fungi(q, d)}}
                   ELSE {q} : q \in flowered}
        checked == {IF q.stress > 99 THEN _kill(q) ELSE q : q \in rolled}
    IN  IF _evolve_raises(counted, d)
        THEN {Outcome(counted, ValueError)}
        ELSE {Outcome(_update_look(q, d), OK) : q \in checked}

\* The effect of an allowed action, before the day advance.
ActionEffect(p, a) ==
    IF a = WAIT THEN {p}
    ELSE IF a = PLANT_SEED THEN {_plant_seed(p)}
    ELSE IF a = WATER THEN _water(p)
    ELSE IF a = FUNGICIDE THEN {_fungicide(p)}
    ELSE IF a = FUMIGATE THEN {_fumigate(p)}
    ELSE IF a = FERTILIZE THEN {_fertilize(p)}
    ELSE {p}

\* Faulty variant of interact: the membership test of the action is missing.
interact_unchecked(p, a, d) ==
    IF p.status \notin DOMAIN STATUS_ACTIONS
    THEN {Outcome(p, KeyError)}
    ELSE IF STATUS_ACTIONS[p.status] = {}
    THEN {Outcome(p, NotImplementedError)}
    ELSE IF a = PLANT_SEED /\ _plant_seed_raises(p)
    THEN {Outcome(p, ValueError)}
    ELSE UNION {_end_day(q, d) : q \in ActionEffect(p, a)}

\* Plant.interact: every outcome of the call.
interact(p, a, d) ==
    IF p.status \notin DOMAIN STATUS_ACTIONS
    THEN {Outcome(p, KeyError)}
    ELSE IF STATUS_ACTIONS[p.status] = {}
    THEN {Outcome(p, NotImplementedError)}
    ELSE IF a \notin STATUS_ACTIONS[p.status]
    THEN {Outcome(p, NotImplementedError)}
    ELSE IF a = PLANT_SEED /\ _plant_seed_raises(p)
    THEN {Outcome(p, ValueError)}
    ELSE UNION {_end_day(q, d) : q \in ActionEffect(p, a)}

----------------------------------------------------------------------------
(* The game (models/game.py)                                               *)

\* Plant.yielded.
yielded(p) == p.status = YIELD

\* Game.new_game: the Game entity, with the games_won of its user and the
\* Score entities stored for it; moves is the number of Move keys in the
\* repeated property (a key is a fresh opaque value).
new_game ==
    [game_over |-> FALSE, games_won |-> 0, scores |-> <<>>, moves |-> 0]

\* Game.end_game(won); p is the plant as stored.
end_game(g, won, p) ==
    [g EXCEPT !.game_over = TRUE,
              !.games_won = IF won THEN @ + 1 ELSE @,
              !.scores = Append(@, [won |-> won, harvest |-> p.flowers])]

\* What one call of take_action leaves: the game, the plant that
\* self.plant.get() returns from then on, and how the call ended.
GameOutcome(g, p, e) == [g |-> g, p |-> p, e |-> e]

\* Faulty variant of take_action: the Move is appended whatever interact did.
take_action_always_moves(g, p, a, d) ==
    UNION {IF o.e = OK
           THEN LET ended == IF o.p.dead
                             THEN end_game(g, yielded(o.p), o.p) ELSE g
                IN  {GameOutcome([ended EXCEPT !.moves = @ + 1],
                                 o.p, OK)}
           ELSE {GameOutcome([g EXCEPT !.moves = @ + 1], q, o.e) :
                    q \in {p, o.p}}
           : o \in interact(p, a, d)}

\* Game.take_action: every outcome of the call.  An exception of interact
\* leaves the method before plant_ref.put(): the stored plant is the one
\* from before the call, while a cached plant_ref keeps what interact had
\* assigned, so get() may return either.
take_action(g, p, a, d) ==
    UNION {IF o.e = OK
           THEN LET ended == IF o.p.dead
                             THEN end_game(g, yielded(o.p), o.p) ELSE g
                IN  {GameOutcome([ended EXCEPT !.moves = @ + 1],
                                 o.p, OK)}
           ELSE {GameOutcome(g, q, o.e) : q \in {p, o.p}}
           : o \in interact(p, a, d)}

----------------------------------------------------------------------------
(* The state machine                                                       *)

Init ==
    /\ data \in PLANT_SPECIES
    /\ plant = new_plant(data)
    /\ action = "none"
    /\ err = "none"
    /\ sample = <<>>
    /\ game = new_game

\* One call of plant.interact(a).
Interact ==
    /\ \E a \in ActionInputs :
        \E o \in interact(plant, a, data) :
            /\ o.p.age <= MaxAge
            /\ plant' = o.p
            /\ err' = o.e
            /\ action' = a
    /\ UNCHANGED <<data, sample, game>>

Next == Interact

Spec == Init /\ [][Next]_vars

----------------------------------------------------------------------------
(* _grow on its own: a growing plant of any stress and fertilizer          *)

\* The fertilizer values tried: within 10 of the ideal, and 50 above it.
GrowFertilizers(d) ==
    {d.plant.ideal_fertilizer + diff : diff \in -9..9}
        \cup {d.plant.ideal_fertilizer + 50}

GrowInit ==
    /\ data \in PLANT_SPECIES
    /\ \E s \in 0..100 : \E f \in GrowFertilizers(data) :
        plant = [new_plant(data) EXCEPT !.status = PLANT, !.age = 1,
                                        !.stress = s, !.fertilizer = f]
    /\ action = "none"
    /\ err = "none"
    /\ sample = <<>>
    /\ game = new_game

\* _grow(data) on the plant, and on the same plant with the fertilizer 50
\* above the ideal; sample keeps the day_growth of each.
Grow ==
    /\ sample = <<>>
    /\ plant' = _grow(plant, data)
    /\ sample' =
        [fertilizer_diff |-> _get_fertilizer_diff(plant, data),
         day_growth |-> day_growth(plant, data),
         day_growth_50 |->
            day_growth([plant EXCEPT
                !.fertilizer = data.plant.ideal_fertilizer + 50], data)]
    /\ UNCHANGED <<data, action, err, game>>

GrowNext == Grow

GrowSpec == GrowInit /\ [][GrowNext]_vars

----------------------------------------------------------------------------
(* A whole life, on a species that stays PLANTED for a day and flowers     *)
(* freely                                                                  *)

\* A species record with a small adult size and many flowers a day.
FloweringRecord(g, m, y) ==
    [SpeciesRecord(g, m, y) EXCEPT !.adult_size = 1,
                                   !.mature.flowers_day = 40]

\* A species with ordered thresholds.
LifeSpecies == {FloweringRecord(2, 3, 4)}

\* The longest run of days modelled in LifeSpec.
MaxLifeAge == 4

LifeInit ==
    /\ data \in LifeSpecies
    /\ plant = new_plant(data)
    /\ action = "none"
    /\ err = "none"
    /\ sample = <<>>
    /\ game = new_game

\* One call of plant.interact(a).
LifeInteract ==
    /\ \E a \in ActionInputs :
        \E o \in interact(plant, a, data) :
            /\ o.p.age <= MaxLifeAge
            /\ plant' = o.p
            /\ err' = o.e
            /\ action' = a
    /\ UNCHANGED <<data, sample, game>>

LifeNext == LifeInteract

LifeSpec == LifeInit /\ [][LifeNext]_vars

----------------------------------------------------------------------------
(* Days of protection: the seed is planted at once on a species that lives *)
(* long, and is then watered, left alone or treated                        *)

\* A species that leaves six days between germination and yield.
ProtectSpecies == {SpeciesRecord(1, 3, 8)}

\* The actions the caller passes after the plant-seed call.
ProtectInputs == {WAIT, WATER, FUNGICIDE, FUMIGATE}

\* The longest run of days modelled in ProtectSpec.
MaxProtectAge == 8

ProtectInit ==
    /\ data \in ProtectSpecies
    /\ plant = new_plant(data)
    /\ action = "none"
    /\ err = "none"
    /\ sample = <<>>
    /\ game = new_game

\* One call of plant.interact(a); the first call is the plant-seed call.
ProtectInteract ==
    /\ \E a \in IF plant.status = SEED THEN {PLANT_SEED} ELSE ProtectInputs :
        \E o \in interact(plant, a, data) :
            /\ o.p.age <= MaxProtectAge
            /\ plant' = o.p
            /\ err' = o.e
            /\ action' = a
    /\ UNCHANGED <<data, sample, game>>

ProtectNext == ProtectInteract

ProtectSpec == ProtectInit /\ [][ProtectNext]_vars

----------------------------------------------------------------------------
(* Properties                                                              *)

\* The allowed-action table of the specification; no stage allows "prune".
AllowedActions(stage) ==
    CASE stage = SEED -> {PLANT_SEED, FUNGICIDE, FUMIGATE, FERTILIZE}
      [] stage = PLANTED -> {WAIT, WATER, FERTILIZE}
      [] stage = PLANT -> {WAIT, WATER, FUNGICIDE, FUMIGATE, FERTILIZE}
      [] stage = MATURE -> {WAIT, WATER, FUNGICIDE, FUMIGATE, FERTILIZE}
      [] stage = YIELD -> {}

\* The position of a stage in SEED < PLANTED < GROWING < MATURE < YIELDED.
StageIndex(stage) ==
    CASE stage = SEED -> 0
      [] stage = PLANTED -> 1
      [] stage = PLANT -> 2
      [] stage = MATURE -> 3
      [] stage = YIELD -> 4

\* The stage once the action of the step has had its effect.
StageAfterAction ==
    IF plant.status = SEED /\ action' = PLANT_SEED THEN PLANTED
    ELSE plant.status

\* C1: in the stages SEED to YIELDED a call with an action outside the
\* stage's allowed set fails with the InvalidAction kind
\* (NotImplementedError) and leaves every field of the plant as it was.
C1_InvalidActionLeavesPlant ==
    [][(/\ plant.status \in {SEED, PLANTED, PLANT, MATURE, YIELD}
        /\ action' \notin AllowedActions(plant.status))
       => (err' = NotImplementedError /\ plant' = plant)]_vars

\* A call on a yielded plant has been refused.
C1_Witness ==
    /\ plant.status = YIELD
    /\ action = WATER
    /\ err = NotImplementedError

\* C2: at the end of every completed call moisture, fertilizer and stress
\* are within [0,100].
C2_PercentagesInRange ==
    err \in {"none", OK} =>
        /\ plant.moisture \in 0..100
        /\ plant.fertilizer \in 0..100
        /\ plant.stress \in 0..100

\* A germination day has ended with the stress at its cap.
C2_Witness ==
    /\ err = OK
    /\ plant.age > 0
    /\ plant.age = data.evolution.germination
    /\ plant.stress = 100

\* C3: no call moves the stage backward in SEED < PLANTED < GROWING <
\* MATURE < YIELDED, and no call changes a stage that is YIELDED or DEAD.
C3_StageNeverRegresses ==
    [][/\ plant.status \in {YIELD, DEAD} => plant'.status = plant.status
       /\ plant'.status # DEAD =>
            /\ plant.status # DEAD
            /\ StageIndex(plant'.status) >= StageIndex(plant.status)]_vars

\* A call has been made on a dead plant, which is still dead.
C3_Witness ==
    /\ plant.status = DEAD
    /\ err \notin {"none", OK}

\* The call of the step germinates the plant.
GerminatesInCall ==
    /\ StageAfterAction = PLANTED
    /\ plant'.age = data.evolution.germination

\* C4: a completed call whose stage after the action effect and the stage
\* evolution is SEED or PLANTED does not end in DEAD.
C4_DeadOnlyFromGrown ==
    [][(/\ err' = OK
        /\ plant.status \in {SEED, PLANTED}
        /\ ~GerminatesInCall)
       => plant'.status # DEAD]_vars

\* C5: a completed call that ends with stress above 99 ends in DEAD with
\* is_dead set.
C5_StressKills ==
    (err = OK /\ plant.stress > 99) => (plant.status = DEAD /\ plant.dead)

\* The yield day has ended in DEAD: the fungicide of that day brought the
\* stress to 100.
C5_Witness ==
    /\ err = OK
    /\ action = FUNGICIDE
    /\ plant.age = data.evolution.yield
    /\ data.evolution.maturity < data.evolution.yield
    /\ data.evolution.germination < data.evolution.maturity
    /\ plant.stress = 100
    /\ plant.status = DEAD

\* C6: is_dead is true exactly when the stage is YIELDED or DEAD.
C6_DeadIffTerminal ==
    plant.dead <=> plant.status \in {YIELD, DEAD}

\* The plant has yielded.
C6_Witness ==
    /\ plant.status = YIELD
    /\ plant.dead

\* C7: a call that fails with the InvalidState kind (ValueError) leaves
\* every field of the plant as it was.
C7_InvalidStateLeavesPlant ==
    [][err' = ValueError => plant' = plant]_vars

\* C8: a call on a DEAD plant fails with the InvalidAction kind
\* (NotImplementedError) and leaves the plant as it was.
C8_DeadRaisesInvalidAction ==
    [][plant.status = DEAD =>
        (err' = NotImplementedError /\ plant' = plant)]_vars

\* C9 as stated: a completed call leaves the fertilizer where the action
\* effect put it.
C9_FertilizerUntouchedByDay ==
    [][err' = OK =>
        plant'.fertilizer =
            IF action' = FERTILIZE THEN Min(plant.fertilizer + 10, 100)
            ELSE plant.fertilizer]_vars

\* The fertilizer after the action effect of the step.
FertilizerAfterAction ==
    IF action' = FERTILIZE THEN Min(plant.fertilizer + 10, 100)
    ELSE plant.fertilizer

\* C9, amended: a completed call whose stage after the action effect is
\* SEED leaves the fertilizer where the action effect put it; any other
\* completed call leaves it one lower than that, and not below 0.
C9_FertilizerDecaysByDay ==
    [][err' = OK =>
        plant'.fertilizer =
            IF StageAfterAction = SEED THEN FertilizerAfterAction
            ELSE Max(FertilizerAfterAction - 1, 0)]_vars

\* A fertilize call on a planted seed without fertilizer has ended.
C9_Witness ==
    /\ err = OK
    /\ action = FERTILIZE
    /\ plant.age > 0
    /\ plant.fertilizer = 9

\* C10: age is 0 whenever the plant is a SEED; a completed call whose stage
\* after the action effect is not SEED adds exactly 1 to age; and with
\* germination_day > 1 the plant-seed call on a new plant ends in PLANTED
\* with age 1.
C10_AgeCountsDays ==
    /\ [](plant.status = SEED => plant.age = 0)
    /\ [][(err' = OK /\ StageAfterAction # SEED)
            => plant'.age = plant.age + 1]_vars
    /\ [][(/\ err' = OK
           /\ plant = new_plant(data)
           /\ action' = PLANT_SEED
           /\ data.evolution.germination > 1)
          => (plant'.status = PLANTED /\ plant'.age = 1)]_vars

\* The plant-seed call has ended on a species that germinates later.
C10_Witness ==
    /\ err = OK
    /\ action = PLANT_SEED
    /\ data.evolution.germination > 1
    /\ plant.status = PLANTED
    /\ plant.age = 1

\* C12: size is never negative and no call lowers it.
C12_SizeNeverShrinks ==
    [][plant'.size >= plant.size /\ plant'.size >= 0]_vars

\* C13: for a growing plant of any stress, the daily growth with a
\* fertilizer_diff strictly between -10 and 10 is strictly higher than the
\* daily growth with a fertilizer_diff of exactly 50.
C13_FertilizedGrowsFaster ==
    (sample # <<>> /\ Abs(sample.fertilizer_diff) < 10)
        => sample.day_growth > sample.day_growth_50

\* C14: a completed fungicide call on a growing or mature plant ends with
\* has_fungus false, and so does each of the five day advances that start
\* with the one of that call: the four calls after it are made with the
\* countdown at 4, 3, 2 and 1.  The same for fumigate and has_plague.
C14_FiveDaysOfProtection ==
    [][err' = OK =>
        /\ (action' = FUNGICIDE \/ plant.fungicide >= 1) => ~plant'.fungi
        /\ (action' = FUMIGATE \/ plant.fumigation >= 1) => ~plant'.plague]_vars

\* C11: no call lowers the flower count, the count is never negative, and
\* it is 0 as long as the plant has not become MATURE.
C11_FlowersNeverShrink ==
    [][/\ plant'.flowers >= plant.flowers
       /\ plant'.flowers >= 0
       /\ plant'.status \in {SEED, PLANTED, PLANT} => plant'.flowers = 0]_vars

\* The thresholds of the species are ordered.
OrderedThresholds ==
    /\ 0 < data.evolution.germination
    /\ data.evolution.germination < data.evolution.maturity
    /\ data.evolution.maturity < data.evolution.yield

\* The stage once the action and the stage evolution of a completed step
\* have had their effect, whatever the death check makes of it.
StageAfterEvolution ==
    IF StageAfterAction = SEED THEN SEED
    ELSE IF plant'.age = data.evolution.germination THEN PLANT
    ELSE IF plant'.age = data.evolution.maturity THEN MATURE
    ELSE IF plant'.age = data.evolution.yield THEN YIELD
    ELSE StageAfterAction

\* C15: with ordered thresholds no call fails with the InvalidState kind
\* (ValueError): a call that brings age to a threshold is made on a plant
\* in the stage the transition needs.
C15_NoInvalidState ==
    /\ [](OrderedThresholds => err # ValueError)
    /\ [][(/\ OrderedThresholds
           /\ plant.status \in {SEED, PLANTED, PLANT, MATURE}
           /\ action' \in AllowedActions(plant.status)
           /\ StageAfterAction # SEED)
          => /\ plant.age + 1 = data.evolution.germination
                    => StageAfterAction = PLANTED
             /\ plant.age + 1 = data.evolution.maturity
                    => StageAfterAction = PLANT
             /\ plant.age + 1 = data.evolution.yield
                    => StageAfterAction = MATURE]_vars

\* A seed planted a day before has germinated.
C15_Witness ==
    /\ OrderedThresholds
    /\ data.evolution.germination > 1
    /\ err = OK
    /\ plant.age = data.evolution.germination
    /\ plant.status = PLANT

\* C16: with ordered thresholds a plant that is not dead is younger than
\* yield_day.
C16_DeadByYieldDay ==
    (OrderedThresholds /\ ~plant.dead) => plant.age < data.evolution.yield

\* The plant has lived to its yield day and yielded.
C16_Witness ==
    /\ OrderedThresholds
    /\ err = OK
    /\ plant.age = data.evolution.yield
    /\ plant.status = YIELD
    /\ plant.dead

C18_MoistureOfACall ==
    [][err' = OK =>
        /\ \E d \in 10..20 :
            \E w \in IF action' = WATER THEN 30..70 ELSE {0} :
                plant'.moisture = Max(Min(plant.moisture + w, 100) - d, 0)
        /\ (action' = WAIT /\ plant.moisture >= 80) => plant'.moisture >= 60
        /\ plant'.moisture <= 90]_vars

\* A wait on soil that held 90 or more has left 80.
C18_Witness ==
    /\ err = OK
    /\ action = WAIT
    /\ plant.moisture = 80

----------------------------------------------------------------------------
(* The game: take_action calls on one Game                                 *)

\* The number of Moves a game is followed for.
MaxMoves == 5

\* One call of game.take_action(a).
TakeAction ==
    /\ \E a \in ActionInputs :
        \E o \in take_action(game, plant, a, data) :
            /\ o.p.age <= MaxAge
            /\ o.g.moves <= MaxMoves
            /\ game' = o.g
            /\ plant' = o.p
            /\ err' = o.e
            /\ action' = a
    /\ UNCHANGED <<data, sample>>

GameNext == TakeAction

GameSpec == Init /\ [][GameNext]_vars

\* C20: end_game runs at most once, in the call in which the plant becomes
\* dead, with won exactly when the stage is YIELDED; from then on game_over
\* is true and every take_action fails and leaves Scores, games_won and
\* Moves alone; a failed take_action never appends a Move.
C20_GameEndsOnce ==
    /\ [](/\ Len(game.scores) <= 1
          /\ game.game_over <=> plant.dead
          /\ game.game_over <=> Len(game.scores) = 1)
    /\ [][/\ (~plant.dead /\ plant'.dead) =>
                /\ err' = OK
                /\ game'.game_over
                /\ game'.scores =
                     <<[won |-> plant'.status = YIELD,
                        harvest |-> plant'.flowers]>>
                /\ game'.games_won =
                     game.games_won + IF plant'.status = YIELD THEN 1 ELSE 0
          /\ game'.scores # game.scores => (~plant.dead /\ plant'.dead)
          /\ game'.games_won # game.games_won => (~plant.dead /\ plant'.dead)
          /\ game.game_over => (err' # OK /\ game' = game)
          /\ err' # OK => game'.moves = game.moves
          /\ err' = OK => game'.moves = game.moves + 1]_vars

\* A won game has refused a further action.
C20_Witness ==
    /\ game.game_over
    /\ err \notin {OK, "none"}
    /\ game.games_won = 1
    /\ Len(game.scores) = 1
    /\ game.scores[1].won

====
